---- MODULE Spec2Model ----
(***************************************************************************)
(* The user-account handlers of redash (redash/handlers/users.py) as a     *)
(* state machine: the users table, the audit events and mails each request *)
(* gives rise to, and the request each worker is serving.                  *)
(*                                                                         *)
(* Spec      every handler runs as one step (requests served one by one).  *)
(* ConcSpec  createUser and updateUser are served by two workers, each     *)
(*           handler split at its db.session.commit().                     *)
(* LockSpec  disable and enable are served by two workers for enabled      *)
(*           actors, each handler split between its checks and its commit. *)
(***************************************************************************)
EXTENDS Integers, Sequences, FiniteSets, TLC

\* ------------------------------------------------------------------ bounds
\* Committed writes (successful db.session.commit() calls) a behaviour holds.
MaxCommits == 2

Workers == {1, 2}

\* ------------------------------------------------------------ plain values
NoUser == [id |-> 0]
NoHash == "nohash"
NoKey == "nokey"
NoLink == <<>>
NoReq == [op |-> "none"]
NoResp == [code |-> 0]
NoLocal == [phase |-> "none"]
Empty == [k \in {} |-> 0]

Merge(f, g) == [k \in (DOMAIN f) \cup (DOMAIN g) |-> IF k \in DOMAIN g THEN g[k] ELSE f[k]]

\* funcy.project(mapping, keys): the mapping restricted to keys.
Project(m, keys) == [k \in (DOMAIN m) \cap keys |-> m[k]]

\* dict.pop(key) as used on params: the mapping without key.
Pop(m, key) == [k \in (DOMAIN m) \ {key} |-> m[k]]

\* --------------------------------------------------------------- e-mails
\* An e-mail address is a sequence of tokens; "@" is the separator token and
\* a domain token may be spelled with capitals.
At == "@"

LowerTok(t) ==
  CASE t = "X.com" -> "x.com"
    [] t = "QQ.com" -> "qq.com"
    [] t = "MAILINATOR.com" -> "mailinator.com"
    [] OTHER -> t

\* str.lower() on a token sequence.
Lower(s) == [i \in 1..Len(s) |-> LowerTok(s[i])]

AtPositions(e) == {i \in 1..Len(e) : e[i] = At}

FirstAt(e) == CHOOSE i \in AtPositions(e) : \A j \in AtPositions(e) : i <= j

\* req['email'].split('@', 1): at most one split, at the first separator.
SplitAt1(e) ==
  IF AtPositions(e) = {} THEN <<e>>
  ELSE <<SubSeq(e, 1, FirstAt(e) - 1), SubSeq(e, FirstAt(e) + 1, Len(e))>>

\* disposable_email_domains.blacklist: a set of lower-case domains.
blacklist == {<<"mailinator.com">>}

QQ == <<"qq.com">>

\* The key the store's uniqueness constraint compares: the local part as
\* given, the domain in lower case.
NormalizeEmail(e) ==
  IF AtPositions(e) = {} THEN e
  ELSE SubSeq(e, 1, FirstAt(e)) \o Lower(SubSeq(e, FirstAt(e) + 1, Len(e)))

\* ---------------------------------------------------- groups, permissions
AdminGroup(org) == <<org, "admin">>
DefaultGroup(org) == <<org, "default">>

GroupPermissions(g) ==
  CASE g[2] = "admin" -> {"admin"}
    [] g[2] = "default" -> {"list_users"}
    [] OTHER -> {}

Permissions(u) == UNION {GroupPermissions(g) : g \in u.group_ids}

has_permission(u, p) == p \in Permissions(u)

\* redash.permissions.is_admin_or_owner(object_owner_id)
is_admin_or_owner(actor, owner_id) == has_permission(actor, "admin") \/ actor.id = owner_id

\* ------------------------------------------------------------ credentials
hash_password(p) == <<"hash", p>>

verify_password(u, p) == u.password_hash # NoHash /\ u.password_hash = hash_password(p)

ApiKey(id) == <<"key", id>>

\* ------------------------------------------------------------------ state
VARIABLES
  users,    \* the users table: a sequence of rows, a row's id its index
  commits,  \* committed writes so far
  pc,       \* per worker: "idle" or "commit" (handler stopped before commit)
  local,    \* per worker: what a handler split at its commit holds
  req,      \* per worker: the request being served or last served
  resp,     \* per worker: the response not yet delivered
  events,   \* per worker: audit events recorded while serving req
  mails     \* per worker: notifier calls made while serving req

vars == <<users, commits, pc, local, req, resp, events, mails>>

NewUser(id, org, name, email, hash, groups) ==
  [id |-> id, org |-> org, name |-> name, email |-> email, password_hash |-> hash,
   group_ids |-> groups, is_disabled |-> FALSE, api_key |-> ApiKey(id)]

\* The table when the workers start: an administrator (1) and a second
\* account (2) of organization A, an administrator (3) of organization B.
\* Account 2 may be a member or an administrator, enabled or disabled.
InitUsers(groups2, disabled2) ==
  << NewUser(1, "A", "n1", <<"r", At, "x.com">>, hash_password("p1"),
             {AdminGroup("A"), DefaultGroup("A")}),
     [NewUser(2, "A", "n1", <<"a", At, "x.com">>, hash_password("p1"), groups2)
        EXCEPT !.is_disabled = disabled2],
     NewUser(3, "B", "n1", <<"a", At, "x.com">>, hash_password("p1"),
             {AdminGroup("B"), DefaultGroup("B")}) >>

InitTables ==
  {InitUsers(g, d) : g \in {{DefaultGroup("A")}, {AdminGroup("A"), DefaultGroup("A")}},
                     d \in BOOLEAN}

Init ==
  /\ users \in InitTables
  /\ commits = 0
  /\ pc = [w \in Workers |-> "idle"]
  /\ local = [w \in Workers |-> NoLocal]
  /\ req = [w \in Workers |-> NoReq]
  /\ resp = [w \in Workers |-> NoResp]
  /\ events = [w \in Workers |-> <<>>]
  /\ mails = [w \in Workers |-> <<>>]


\* ------------------------------------------------- responses and outcomes
Response(code, kind, msg, body, link) ==
  [code |-> code, kind |-> kind, msg |-> msg, body |-> body, link |-> link]

\* flask_restful.abort(code, message=...): the request ends here.
abort(code, kind, msg) == Response(code, kind, msg, {}, NoLink)

\* User.to_dict(with_api_key=False)
to_dict(u, with_api_key) ==
  [id |-> u.id, name |-> u.name, email |-> u.email, groups |-> u.group_ids,
   is_disabled |-> u.is_disabled,
   api_key |-> IF with_api_key THEN u.api_key ELSE NoKey]

\* What serving a request leaves behind: the table, the audit events and
\* mails of the request, its response, and whether a commit succeeded.
Outcome(us, evs, ms, rsp, committed) ==
  [users |-> us, events |-> evs, mails |-> ms, resp |-> rsp, committed |-> committed]

\* A request that ends in abort() before any commit: the session's pending
\* changes are discarded with the request.
Rejected(us, rsp) == Outcome(us, <<>>, <<>>, rsp, FALSE)

\* ------------------------------------------------------------- repository
UserIds(us) == 1..Len(us)

\* models.User.get_by_id_and_org(user_id, org)
get_by_id_and_org(us, id, org) ==
  IF id \in UserIds(us) /\ us[id].org = org THEN us[id] ELSE NoUser

\* models.User.all(org)
AllUsers(us, org) == {us[i] : i \in {j \in UserIds(us) : us[j].org = org}}

\* The store's uniqueness constraint on (organization, e-mail): whether a row
\* other than selfId of the organization holds the e-mail.
EmailTaken(us, org, email, selfId) ==
  \E i \in UserIds(us) :
    /\ i # selfId
    /\ us[i].org = org
    /\ NormalizeEmail(us[i].email) = NormalizeEmail(email)

\* ------------------------------------------------------------ collaborators
\* redash.authentication.account.invite_link_for_user(user)
invite_link_for_user(u) == <<"invite", u.id>>

reset_link_for_user(u) == <<"reset", u.id>>

InviteMail(inviter, u, link) ==
  [kind |-> "invite", inviter |-> inviter.id, user |-> u.id, link |-> link, org |-> inviter.org]

ResetMail(u, link) ==
  [kind |-> "reset", inviter |-> 0, user |-> u.id, link |-> link, org |-> u.org]

\* record_event({...}): the timestamp (the wall clock) is left out.
Event(action, u, fields) ==
  [action |-> action, object_id |-> u.id, object_type |-> "user", updated_fields |-> fields]

\* --------------------------------------------------------------- handlers
\* Each handler is an operator from the table and the request to an Outcome,
\* split where the code commits: XCheck is the code before the commit (an
\* abort() response, or NoResp to go on), XStore the commit and what follows.

Actor(us, r) == us[r.actor]

\* UserListResource.get
ListUsers(us, r) ==
  IF ~has_permission(Actor(us, r), "list_users")
  THEN Rejected(us, abort(403, "Unauthorized", "permission"))
  ELSE Outcome(us, <<>>, <<>>,
               Response(200, "OK", "", {to_dict(u, FALSE) : u \in AllUsers(us, Actor(us, r).org)},
                        NoLink),
               FALSE)

\* BadDomain without lower().
BadDomainNoLower(domain) == domain \in blacklist \/ domain = QQ

\* Line 35: the domain, in lower case, is on the denylist or is qq.com.
BadDomain(domain) == Lower(domain) \in blacklist \/ Lower(domain) = QQ

\* UserListResource.post, up to the construction of the user.
CreateCheck(us, r) ==
  IF ~has_permission(Actor(us, r), "admin")
  THEN abort(403, "Unauthorized", "permission")
  ELSE IF ~({"name", "email"} \subseteq DOMAIN r.data)
  THEN abort(400, "ValidationFailure", "Required fields")
  ELSE IF Len(SplitAt1(r.data.email)) # 2
  THEN abort(500, "Internal", "ValueError")
  ELSE IF BadDomain(SplitAt1(r.data.email)[2])
  THEN abort(400, "ValidationFailure", "Bad email address.")
  ELSE NoResp

\* CreateStore with the IntegrityError of the insert swallowed: the row is
\* added although its e-mail is taken.
CreateStoreNoConflict(us, r) ==
  LET inviter == Actor(us, r)
      user == NewUser(Len(us) + 1, inviter.org, r.data.name, r.data.email, NoHash,
                      {DefaultGroup(inviter.org)})
      link == invite_link_for_user(user)
  IN  Outcome(Append(us, user), <<Event("create", user, {})>>, <<>>,
              Response(200, "OK", "", {to_dict(user, FALSE)}, link), TRUE)

\* CreateStore with the test of line 59 left out: the invitation is sent
\* whether or not the caller asked for no_invite.
CreateStoreAlwaysInvites(us, r) ==
  LET inviter == Actor(us, r)
      user == NewUser(Len(us) + 1, inviter.org, r.data.name, r.data.email, NoHash,
                      {DefaultGroup(inviter.org)})
      link == invite_link_for_user(user)
      ev == <<Event("create", user, {})>>
  IN  IF r.fault = "other"
      THEN Rejected(us, abort(500, "Internal", ""))
      ELSE IF EmailTaken(us, user.org, user.email, user.id)
      THEN Rejected(us, abort(400, "Conflict", "Email already taken."))
      ELSE IF r.notifier = "fail"
      THEN Outcome(Append(us, user), ev, <<>>,
                   abort(500, "NotifierFailure", "send_invite_email"), TRUE)
      ELSE Outcome(Append(us, user), ev, <<InviteMail(inviter, user, link)>>,
                   Response(200, "OK", "", {to_dict(user, FALSE)}, link), TRUE)

\* CreateStore with the e-mail put in lower case before it is stored.
CreateStoreLowersEmail(us, r) ==
  LET inviter == Actor(us, r)
      user == NewUser(Len(us) + 1, inviter.org, r.data.name, Lower(r.data.email), NoHash,
                      {DefaultGroup(inviter.org)})
      link == invite_link_for_user(user)
      ev == <<Event("create", user, {})>>
  IN  IF r.fault = "other"
      THEN Rejected(us, abort(500, "Internal", ""))
      ELSE IF EmailTaken(us, user.org, user.email, user.id)
      THEN Rejected(us, abort(400, "Conflict", "Email already taken."))
      ELSE IF r.no_invite
      THEN Outcome(Append(us, user), ev, <<>>,
                   Response(200, "OK", "", {to_dict(user, FALSE)}, link), TRUE)
      ELSE IF r.notifier = "fail"
      THEN Outcome(Append(us, user), ev, <<>>,
                   abort(500, "NotifierFailure", "send_invite_email"), TRUE)
      ELSE Outcome(Append(us, user), ev, <<InviteMail(inviter, user, link)>>,
                   Response(200, "OK", "", {to_dict(user, FALSE)}, link), TRUE)

\* UserListResource.post from session.add(user) on: the insert and commit,
\* the audit event, the invitation and the response.
CreateStore(us, r) ==
  LET inviter == Actor(us, r)
      user == NewUser(Len(us) + 1, inviter.org, r.data.name, r.data.email, NoHash,
                      {DefaultGroup(inviter.org)})
      link == invite_link_for_user(user)
      ev == <<Event("create", user, {})>>
  IN  IF r.fault = "other"
      THEN Rejected(us, abort(500, "Internal", ""))
      ELSE IF EmailTaken(us, user.org, user.email, user.id)
      THEN Rejected(us, abort(400, "Conflict", "Email already taken."))
      ELSE IF r.no_invite
      THEN Outcome(Append(us, user), ev, <<>>,
                   Response(200, "OK", "", {to_dict(user, FALSE)}, link), TRUE)
      ELSE IF r.notifier = "fail"
      THEN Outcome(Append(us, user), ev, <<>>,
                   abort(500, "NotifierFailure", "send_invite_email"), TRUE)
      ELSE Outcome(Append(us, user), ev, <<InviteMail(inviter, user, link)>>,
                   Response(200, "OK", "", {to_dict(user, FALSE)}, link), TRUE)

CreateUser(us, r) ==
  IF CreateCheck(us, r) # NoResp THEN Rejected(us, CreateCheck(us, r)) ELSE CreateStore(us, r)

\* InviteUser without @require_admin.
InviteUserNoAdmin(us, r) ==
  LET user == get_by_id_and_org(us, r.target, Actor(us, r).org)
      link == invite_link_for_user(user)
  IN  IF user = NoUser
      THEN Rejected(us, abort(404, "NotFound", "Not found"))
      ELSE IF r.notifier = "fail"
      THEN Rejected(us, abort(500, "NotifierFailure", "send_invite_email"))
      ELSE Outcome(us, <<>>, <<InviteMail(Actor(us, r), user, link)>>,
                   Response(200, "OK", "", {to_dict(user, FALSE)}, link), FALSE)

\* UserInviteResource.post
InviteUser(us, r) ==
  LET user == get_by_id_and_org(us, r.target, Actor(us, r).org)
      link == invite_link_for_user(user)
  IN  IF ~has_permission(Actor(us, r), "admin")
      THEN Rejected(us, abort(403, "Unauthorized", "permission"))
      ELSE IF user = NoUser
      THEN Rejected(us, abort(404, "NotFound", "Not found"))
      ELSE IF r.notifier = "fail"
      THEN Rejected(us, abort(500, "NotifierFailure", "send_invite_email"))
      ELSE Outcome(us, <<>>, <<InviteMail(Actor(us, r), user, link)>>,
                   Response(200, "OK", "", {to_dict(user, FALSE)}, link), FALSE)

\* ResetPassword without the is_disabled test of line 86.
ResetPasswordAnyState(us, r) ==
  LET user == get_by_id_and_org(us, r.target, Actor(us, r).org)
      reset_link == reset_link_for_user(user)
  IN  IF ~has_permission(Actor(us, r), "admin")
      THEN Rejected(us, abort(403, "Unauthorized", "permission"))
      ELSE IF user = NoUser
      THEN Rejected(us, abort(404, "NotFound", "Not found"))
      ELSE IF r.notifier = "fail"
      THEN Rejected(us, abort(500, "NotifierFailure", "send_password_reset_email"))
      ELSE Outcome(us, <<>>, <<ResetMail(user, reset_link)>>,
                   Response(200, "OK", "", {}, reset_link), FALSE)

\* UserResetPasswordResource.post
ResetPassword(us, r) ==
  LET user == get_by_id_and_org(us, r.target, Actor(us, r).org)
      reset_link == reset_link_for_user(user)
  IN  IF ~has_permission(Actor(us, r), "admin")
      THEN Rejected(us, abort(403, "Unauthorized", "permission"))
      ELSE IF user = NoUser
      THEN Rejected(us, abort(404, "NotFound", "Not found"))
      ELSE IF user.is_disabled
      THEN Rejected(us, abort(404, "NotFound", "Not found"))
      ELSE IF r.notifier = "fail"
      THEN Rejected(us, abort(500, "NotifierFailure", "send_password_reset_email"))
      ELSE Outcome(us, <<>>, <<ResetMail(user, reset_link)>>,
                   Response(200, "OK", "", {}, reset_link), FALSE)

\* GetUser with the api key always in the response.
GetUserWithKey(us, r) ==
  LET user == get_by_id_and_org(us, r.target, Actor(us, r).org)
  IN  IF ~(has_permission(Actor(us, r), "list_users") \/ Actor(us, r).id = r.target)
      THEN Rejected(us, abort(403, "Unauthorized", "permission"))
      ELSE IF user = NoUser
      THEN Rejected(us, abort(404, "NotFound", "Not found"))
      ELSE Outcome(us, <<>>, <<>>,
                   Response(200, "OK", "", {to_dict(user, TRUE)}, NoLink), FALSE)

\* GetUser looking the target up by id alone, in any organization.
GetUserAnyOrg(us, r) ==
  LET user == us[r.target]
  IN  IF ~(has_permission(Actor(us, r), "list_users") \/ Actor(us, r).id = r.target)
      THEN Rejected(us, abort(403, "Unauthorized", "permission"))
      ELSE Outcome(us, <<>>, <<>>,
                   Response(200, "OK", "",
                            {to_dict(user, is_admin_or_owner(Actor(us, r), r.target))}, NoLink),
                   FALSE)

\* UserResource.get
GetUser(us, r) ==
  LET user == get_by_id_and_org(us, r.target, Actor(us, r).org)
  IN  IF ~(has_permission(Actor(us, r), "list_users") \/ Actor(us, r).id = r.target)
      THEN Rejected(us, abort(403, "Unauthorized", "permission"))
      ELSE IF user = NoUser
      THEN Rejected(us, abort(404, "NotFound", "Not found"))
      ELSE Outcome(us, <<>>, <<>>,
                   Response(200, "OK", "",
                            {to_dict(user, is_admin_or_owner(Actor(us, r), r.target))}, NoLink),
                   FALSE)

\* UpdateParams without project(): the whole payload.
UpdateParamsAll(r) == r.data

\* UserResource.post, line 108: the recognised fields of the payload.
UpdateParams(r) == Project(r.data, {"email", "name", "password", "old_password", "groups"})

\* What UserResource.post holds when it reaches (or fails to reach) its
\* commit: the response of an abort(), the session's user object and params.
Checked(rsp, user, params) == [resp |-> rsp, user |-> user, params |-> params]

\* PasswordCheck with the test of line 113 left out: the current password is
\* asked for but not verified.
PasswordCheckNoVerify(user, params) ==
  IF "password" \in DOMAIN params /\ "old_password" \notin DOMAIN params
  THEN abort(403, "PreconditionFailed", "Must provide current password to update password.")
  ELSE NoResp

\* Lines 110-114: a new password needs the current one, and the current one
\* given must verify.
PasswordCheck(user, params) ==
  IF "password" \in DOMAIN params /\ "old_password" \notin DOMAIN params
  THEN abort(403, "PreconditionFailed", "Must provide current password to update password.")
  ELSE IF "old_password" \in DOMAIN params /\ ~verify_password(user, params.old_password)
  THEN abort(403, "PreconditionFailed", "Incorrect current password.")
  ELSE NoResp

\* GroupsCheck left out: any caller the handler admits changes the groups.
GroupsCheckNone(actor, params) == NoResp

\* Lines 120-121: only an administrator changes the groups.
GroupsCheck(actor, params) ==
  IF "groups" \in DOMAIN params /\ ~has_permission(actor, "admin")
  THEN abort(403, "Unauthorized", "Must be admin to change groups membership.")
  ELSE NoResp

\* UserResource.post up to the try block: authorisation, the password and
\* groups checks, the new hash set on the session's user object.
UpdateCheck(us, r) ==
  LET actor == Actor(us, r)
      user == get_by_id_and_org(us, r.target, actor.org)
      params == UpdateParams(r)
      hashed == IF "password" \in DOMAIN params
                THEN [user EXCEPT !.password_hash = hash_password(params.password)]
                ELSE user
      popped == IF "password" \in DOMAIN params
                THEN Pop(Pop(params, "password"), "old_password")
                ELSE params
  IN  IF ~is_admin_or_owner(actor, r.target)
      THEN Checked(abort(403, "Unauthorized", "permission"), NoUser, params)
      ELSE IF user = NoUser
      THEN Checked(abort(404, "NotFound", "Not found"), NoUser, params)
      ELSE IF PasswordCheck(user, params) # NoResp
      THEN Checked(PasswordCheck(user, params), user, params)
      ELSE IF GroupsCheck(actor, popped) # NoResp
      THEN Checked(GroupsCheck(actor, popped), hashed, popped)
      ELSE Checked(NoResp, hashed, popped)

\* BaseResource.update_model(user, params): each param is set on the object
\* under its own name, 'groups' as the row's group_ids; a name that is no
\* column of the row (old_password) does not reach the row.
update_model(u, params) ==
  [k \in DOMAIN u |->
     IF k = "group_ids"
     THEN IF "groups" \in DOMAIN params THEN params.groups ELSE u[k]
     ELSE IF k \in DOMAIN params THEN params[k] ELSE u[k]]

\* UpdateStore with the IntegrityError of the commit swallowed.
UpdateStoreNoConflict(us, r, chk) ==
  LET user == update_model(us[r.target], chk.params)
      us2 == [us EXCEPT ![r.target] = user]
  IN  Outcome(us2, <<Event("edit", user, DOMAIN chk.params)>>, <<>>,
              Response(200, "OK", "",
                       {to_dict(user, is_admin_or_owner(us2[r.actor], r.target))}, NoLink),
              TRUE)

\* UserResource.post from the try block on: the commit writes the changed
\* attributes of the session's user object to the row, then the audit event
\* and the response.
UpdateStore(us, r, chk) ==
  LET row == us[r.target]
      rehashed == IF "password" \in DOMAIN UpdateParams(r)
                  THEN [row EXCEPT !.password_hash = chk.user.password_hash]
                  ELSE row
      user == update_model(rehashed, chk.params)
      us2 == [us EXCEPT ![r.target] = user]
  IN  IF r.fault = "other"
      THEN Rejected(us, abort(400, "Internal", "Error updating record"))
      ELSE IF "email" \in DOMAIN chk.params /\ EmailTaken(us, user.org, user.email, user.id)
      THEN Rejected(us, abort(400, "Conflict", "Email already taken."))
      ELSE Outcome(us2, <<Event("edit", user, DOMAIN chk.params)>>, <<>>,
                   Response(200, "OK", "",
                            {to_dict(user, is_admin_or_owner(us2[r.actor], r.target))}, NoLink),
                   TRUE)

\* UpdateUser committing the session on abort(): what the handler had set on
\* the user object before it was rejected reaches the row.
UpdateUserKeepsSession(us, r) ==
  IF UpdateCheck(us, r).resp # NoResp
  THEN IF UpdateCheck(us, r).user # NoUser
       THEN Outcome([us EXCEPT ![r.target] = UpdateCheck(us, r).user], <<>>, <<>>,
                    UpdateCheck(us, r).resp, FALSE)
       ELSE Rejected(us, UpdateCheck(us, r).resp)
  ELSE UpdateStore(us, r, UpdateCheck(us, r))

UpdateUser(us, r) ==
  IF UpdateCheck(us, r).resp # NoResp
  THEN Rejected(us, UpdateCheck(us, r).resp)
  ELSE UpdateStore(us, r, UpdateCheck(us, r))

\* DisableCheck without the comparison of line 151.
DisableCheckNoSelf(us, r) ==
  LET user == get_by_id_and_org(us, r.target, Actor(us, r).org)
  IN  IF ~has_permission(Actor(us, r), "admin")
      THEN abort(403, "Unauthorized", "permission")
      ELSE IF user = NoUser
      THEN abort(404, "NotFound", "Not found")
      ELSE NoResp

\* UserDisableResource.post up to user.disable()
DisableCheck(us, r) ==
  LET user == get_by_id_and_org(us, r.target, Actor(us, r).org)
  IN  IF ~has_permission(Actor(us, r), "admin")
      THEN abort(403, "Unauthorized", "permission")
      ELSE IF user = NoUser
      THEN abort(404, "NotFound", "Not found")
      ELSE IF user.id = Actor(us, r).id
      THEN abort(400, "ValidationFailure", "You cannot disable your own account.")
      ELSE NoResp

\* user.disable(), the commit and the response
DisableStore(us, r) ==
  LET user == [us[r.target] EXCEPT !.is_disabled = TRUE]
  IN  Outcome([us EXCEPT ![r.target] = user], <<>>, <<>>,
              Response(200, "OK", "",
                       {to_dict(user, is_admin_or_owner(Actor(us, r), r.target))}, NoLink),
              TRUE)

DisableUser(us, r) ==
  IF DisableCheck(us, r) # NoResp THEN Rejected(us, DisableCheck(us, r)) ELSE DisableStore(us, r)

\* UserDisableResource.delete up to user.enable()
EnableCheck(us, r) ==
  LET user == get_by_id_and_org(us, r.target, Actor(us, r).org)
  IN  IF ~has_permission(Actor(us, r), "admin")
      THEN abort(403, "Unauthorized", "permission")
      ELSE IF user = NoUser
      THEN abort(404, "NotFound", "Not found")
      ELSE NoResp

\* EnableStore flipping the flag instead of clearing it.
EnableStoreToggles(us, r) ==
  LET user == [us[r.target] EXCEPT !.is_disabled = ~@]
  IN  Outcome([us EXCEPT ![r.target] = user], <<>>, <<>>,
              Response(200, "OK", "",
                       {to_dict(user, is_admin_or_owner(Actor(us, r), r.target))}, NoLink),
              TRUE)

\* user.enable(), the commit and the response
EnableStore(us, r) ==
  LET user == [us[r.target] EXCEPT !.is_disabled = FALSE]
  IN  Outcome([us EXCEPT ![r.target] = user], <<>>, <<>>,
              Response(200, "OK", "",
                       {to_dict(user, is_admin_or_owner(Actor(us, r), r.target))}, NoLink),
              TRUE)

EnableUser(us, r) ==
  IF EnableCheck(us, r) # NoResp THEN Rejected(us, EnableCheck(us, r)) ELSE EnableStore(us, r)

\* --------------------------------------------------------------- requests
Request(op, actor, target, data, no_invite, notifier, fault) ==
  [op |-> op, actor |-> actor, target |-> target, data |-> data,
   no_invite |-> no_invite, notifier |-> notifier, fault |-> fault]

\* A request without payload, with the collaborators working.
Plain(op, actor, target) == Request(op, actor, target, Empty, FALSE, "ok", "none")

\* notifier: whether the notifier raises ("fail") when called.
Notifier == {"ok", "fail"}

\* fault: "other" is a commit that raises an IntegrityError that does not
\* name the e-mail constraint.
CreateEmails ==
  { <<"a", At, "x.com">>, <<"a", At, "X.com">>, <<"b", At, "x.com">>,
    <<"a", At, "qq.com">>, <<"a", At, "QQ.com">>, <<"a", At, "MAILINATOR.com">>,
    <<"a", "x.com">>, <<"a", At, "b", At, "x.com">>, <<"b", At, "X.com">> }

FreshEmails == { <<"b", At, "x.com">> }

CreateData ==
  {[name |-> "n2", email |-> e] : e \in CreateEmails}
    \cup {[name |-> "n2"], [email |-> <<"b", At, "x.com">>]}

CreateOptions ==
  { <<TRUE, "ok", "none">>, <<TRUE, "fail", "none">>, <<FALSE, "fail", "none">>,
    <<FALSE, "ok", "other">> }

CreateRequests(a) ==
  {Request("create", a, 0, d, FALSE, "ok", "none") : d \in CreateData}
    \cup {Request("create", a, 0, [name |-> "n2", email |-> e], o[1], o[2], o[3]) :
            e \in FreshEmails, o \in CreateOptions}

PasswordPairs ==
  { Empty, [password |-> "p2", old_password |-> "p1"], [password |-> "p2", old_password |-> "p2"] }

PasswordAlone == { [password |-> "p2"], [old_password |-> "p1"], [old_password |-> "p2"] }

OtherFields(org) ==
  { Empty,
    [groups |-> {AdminGroup(org), DefaultGroup(org)}],
    [groups |-> {}],
    [email |-> <<"a", At, "X.com">>],
    [name |-> "n2"],
    [name |-> "n2", email |-> <<"b", At, "x.com">>],
    [is_disabled |-> TRUE, api_key |-> "k", org |-> "B", id |-> 9] }

UpdateData(org) ==
  {Merge(pw, x) : pw \in PasswordPairs, x \in OtherFields(org)} \cup PasswordAlone

UpdateRequests(a, t) ==
  {Request("update", a, t, d, FALSE, "ok", "none") : d \in UpdateData(users[a].org)}
    \cup {Request("update", a, t, [name |-> "n2"], FALSE, "ok", "other")}

\* ---------------------------------------------------------------- actions
\* Worker w has no request in hand and no response waiting for delivery.
Ready(w) == pc[w] = "idle" /\ resp[w] = NoResp

\* Worker w ends the request r with the outcome out.
Serve(w, r, out) ==
  /\ users' = out.users
  /\ commits' = commits + (IF out.committed THEN 1 ELSE 0)
  /\ events' = [events EXCEPT ![w] = out.events]
  /\ mails' = [mails EXCEPT ![w] = out.mails]
  /\ req' = [req EXCEPT ![w] = r]
  /\ resp' = [resp EXCEPT ![w] = out.resp]
  /\ pc' = [pc EXCEPT ![w] = "idle"]
  /\ UNCHANGED local

\* The response of worker w reaches the caller; the events and mails of the
\* request are with their collaborators.
Respond(w) ==
  /\ pc[w] = "idle"
  /\ resp[w] # NoResp
  /\ resp' = [resp EXCEPT ![w] = NoResp]
  /\ req' = [req EXCEPT ![w] = NoReq]
  /\ events' = [events EXCEPT ![w] = <<>>]
  /\ mails' = [mails EXCEPT ![w] = <<>>]
  /\ local' = [local EXCEPT ![w] = NoLocal]
  /\ UNCHANGED <<users, commits, pc>>

InFlight == Cardinality({w \in Workers : pc[w] = "commit"})

MayWrite == commits + InFlight < MaxCommits

List(w) ==
  /\ Ready(w)
  /\ \E a \in UserIds(users) :
       Serve(w, Plain("list", a, 0), ListUsers(users, Plain("list", a, 0)))

Get(w) ==
  /\ Ready(w)
  /\ \E a \in UserIds(users), t \in UserIds(users) :
       Serve(w, Plain("get", a, t), GetUser(users, Plain("get", a, t)))

Invite(w) ==
  /\ Ready(w)
  /\ \E a \in UserIds(users), t \in UserIds(users), n \in Notifier :
       LET r == Request("invite", a, t, Empty, FALSE, n, "none")
       IN  Serve(w, r, InviteUser(users, r))

Reset(w) ==
  /\ Ready(w)
  /\ \E a \in UserIds(users), t \in UserIds(users), n \in Notifier :
       LET r == Request("reset", a, t, Empty, FALSE, n, "none")
       IN  Serve(w, r, ResetPassword(users, r))

Create(w) ==
  /\ Ready(w)
  /\ MayWrite
  /\ \E a \in UserIds(users) : \E r \in CreateRequests(a) :
       Serve(w, r, CreateUser(users, r))

Update(w) ==
  /\ Ready(w)
  /\ MayWrite
  /\ \E a \in UserIds(users), t \in UserIds(users) : \E r \in UpdateRequests(a, t) :
       Serve(w, r, UpdateUser(users, r))

Disable(w) ==
  /\ Ready(w)
  /\ MayWrite
  /\ \E a \in UserIds(users), t \in UserIds(users) :
       Serve(w, Plain("disable", a, t), DisableUser(users, Plain("disable", a, t)))

Enable(w) ==
  /\ Ready(w)
  /\ MayWrite
  /\ \E a \in UserIds(users), t \in UserIds(users) :
       Serve(w, Plain("enable", a, t), EnableUser(users, Plain("enable", a, t)))

\* Requests are served one at a time, by worker 1.
Next ==
  \/ List(1)
  \/ Get(1)
  \/ Invite(1)
  \/ Reset(1)
  \/ Create(1)
  \/ Update(1)
  \/ Disable(1)
  \/ Enable(1)
  \/ Respond(1)

Spec == Init /\ [][Next]_vars

\* ------------------------------------------- handlers split at the commit
\* The requests the two workers of ConcSpec serve.
ConcEmails == { <<"b", At, "x.com">>, <<"b", At, "X.com">>, <<"a", At, "X.com">> }

ConcCreateRequests(a) ==
  {Request("create", a, 0, [name |-> "n2", email |-> e], TRUE, "ok", "none") : e \in ConcEmails}
    \cup {Request("create", a, 0, [name |-> "n2", email |-> <<"b", At, "x.com">>],
                  TRUE, "ok", "other")}

ConcUpdateRequests(a, t) ==
  {Request("update", a, t, [email |-> e], FALSE, "ok", "none") : e \in ConcEmails}

\* Worker w stops before the commit of request r, holding what its checks
\* left (chk) and the number of commits it has seen (began).
Hold(w, r, chk) ==
  /\ pc' = [pc EXCEPT ![w] = "commit"]
  /\ req' = [req EXCEPT ![w] = r]
  /\ local' = [local EXCEPT ![w] = [phase |-> "commit", began |-> commits, checked |-> chk]]
  /\ UNCHANGED <<users, commits, resp, events, mails>>

AtCommit(w, op) == pc[w] = "commit" /\ req[w].op = op

CreateBegin(w) ==
  /\ Ready(w)
  /\ MayWrite
  /\ \E a \in UserIds(users) : \E r \in ConcCreateRequests(a) :
       IF CreateCheck(users, r) # NoResp
       THEN Serve(w, r, Rejected(users, CreateCheck(users, r)))
       ELSE Hold(w, r, Checked(NoResp, NoUser, Empty))

CreateCommit(w) ==
  /\ AtCommit(w, "create")
  /\ Serve(w, req[w], CreateStore(users, req[w]))

UpdateBegin(w) ==
  /\ Ready(w)
  /\ MayWrite
  /\ \E a \in UserIds(users), t \in UserIds(users) : \E r \in ConcUpdateRequests(a, t) :
       IF UpdateCheck(users, r).resp # NoResp
       THEN Serve(w, r, Rejected(users, UpdateCheck(users, r).resp))
       ELSE Hold(w, r, UpdateCheck(users, r))

UpdateCommit(w) ==
  /\ AtCommit(w, "update")
  /\ Serve(w, req[w], UpdateStore(users, req[w], local[w].checked))

ConcNext ==
  \E w \in Workers :
    \/ CreateBegin(w)
    \/ CreateCommit(w)
    \/ UpdateBegin(w)
    \/ UpdateCommit(w)
    \/ Respond(w)

\* The two workers start on a table whose accounts are all enabled.
ConcInit == Init /\ \A i \in UserIds(users) : ~users[i].is_disabled

ConcSpec == ConcInit /\ [][ConcNext]_vars

\* ------------------------------- disable and enable split at the commit
\* Two workers serve disable and enable requests of enabled actors, each
\* handler stopping between its checks and user.disable() / user.enable().
Enabled(a) == ~users[a].is_disabled

DisableBegin(w) ==
  /\ Ready(w)
  /\ MayWrite
  /\ \E a \in UserIds(users), t \in UserIds(users) :
       /\ Enabled(a)
       /\ LET r == Plain("disable", a, t)
          IN  IF DisableCheck(users, r) # NoResp
              THEN Serve(w, r, Rejected(users, DisableCheck(users, r)))
              ELSE Hold(w, r, Checked(NoResp, NoUser, Empty))

DisableCommit(w) ==
  /\ AtCommit(w, "disable")
  /\ Serve(w, req[w], DisableStore(users, req[w]))

EnableBegin(w) ==
  /\ Ready(w)
  /\ MayWrite
  /\ \E a \in UserIds(users), t \in UserIds(users) :
       /\ Enabled(a)
       /\ LET r == Plain("enable", a, t)
          IN  IF EnableCheck(users, r) # NoResp
              THEN Serve(w, r, Rejected(users, EnableCheck(users, r)))
              ELSE Hold(w, r, Checked(NoResp, NoUser, Empty))

EnableCommit(w) ==
  /\ AtCommit(w, "enable")
  /\ Serve(w, req[w], EnableStore(users, req[w]))

LockNext ==
  \E w \in Workers :
    \/ DisableBegin(w)
    \/ DisableCommit(w)
    \/ EnableBegin(w)
    \/ EnableCommit(w)
    \/ Respond(w)

LockSpec == Init /\ [][LockNext]_vars

\* ----------------------------------------------------------------- claims
\* A response of worker w waits for delivery: req[w] is the request served,
\* events[w] and mails[w] what serving it emitted.
Done(w) == resp[w] # NoResp

\* The step in which worker w ends a request (action level).
Served(w) == resp[w] = NoResp /\ resp'[w] # NoResp

IsAdmin(us, a) == has_permission(us[a], "admin")

Ok(w) == resp[w].kind = "OK"

EmailConflict(w) == resp[w].kind = "Conflict" /\ resp[w].msg = "Email already taken."

\* The rows of org whose e-mail is e up to the case of the domain.
Holders(org, e) ==
  {i \in UserIds(users) : users[i].org = org /\ NormalizeEmail(users[i].email) = NormalizeEmail(e)}

CreatedBy(w) == IF Ok(w) THEN {d.id : d \in resp[w].body} ELSE {}

\* Workers w and v have both ended a createUser for the same e-mail in the
\* same organization; both passed validation and stopped before their commits
\* at the same time (neither had seen a commit the other had not), no commit
\* hit an unrelated storage error, and nobody else holds the e-mail.
ConcurrentCreates(w, v) ==
  /\ w # v
  /\ Done(w) /\ Done(v)
  /\ req[w].op = "create" /\ req[v].op = "create"
  /\ local[w].phase = "commit" /\ local[v].phase = "commit"
  /\ local[w].began = local[v].began
  /\ req[w].fault = "none" /\ req[v].fault = "none"
  /\ users[req[w].actor].org = users[req[v].actor].org
  /\ req[w].data.email = req[v].data.email
  /\ Holders(users[req[w].actor].org, req[w].data.email) \subseteq CreatedBy(w) \cup CreatedBy(v)

\* C1: of two concurrent createUser requests for the same e-mail in the same
\* organization, under every interleaving of their validation and commit
\* steps, exactly one succeeds and the other fails with 'Email already
\* taken.': never both succeed, never both fail.
C1_ExactlyOneConcurrentCreate ==
  \A w \in Workers, v \in Workers :
    ConcurrentCreates(w, v) => (Ok(w) /\ EmailConflict(v)) \/ (EmailConflict(w) /\ Ok(v))

C1_Witness ==
  \E w \in Workers, v \in Workers :
    ConcurrentCreates(w, v) /\ Ok(w) /\ EmailConflict(v) /\ Len(users) = 4

CaseVariantConflict(w, op) ==
  /\ Done(w)
  /\ req[w].op = op
  /\ EmailConflict(w)
  /\ \A i \in UserIds(users) : users[i].email # req[w].data.email

C3_SelfDisableRejected ==
  [][\A w \in Workers :
       (Served(w) /\ req'[w].op = "disable" /\ req'[w].actor = req'[w].target)
         => /\ resp'[w].code \in {400, 403}
            /\ IsAdmin(users, req'[w].actor)
                 => resp'[w].code = 400 /\ resp'[w].kind = "ValidationFailure"
            /\ users' = users]_vars

C3_Witness ==
  \E w \in Workers :
    /\ Done(w)
    /\ req[w].op = "disable"
    /\ req[w].actor = req[w].target
    /\ resp[w].code = 400
    /\ ~users[req[w].target].is_disabled

\* C4 (I2): a resetPassword for a disabled target fails, gives no reset link
\* and calls no notifier, with NotFound when the actor is an administrator;
\* for an enabled target of the administrator's organization it succeeds with
\* the reset link and one reset mail (the notifier working). This holds in
\* every reachable state, so after every sequence of disable and enable.
C4_ResetOnlyWhenEnabled ==
  \A w \in Workers :
    (Done(w) /\ req[w].op = "reset")
      => LET t == users[req[w].target]
             a == users[req[w].actor]
         IN  /\ t.is_disabled
                  => /\ resp[w].code # 200
                     /\ resp[w].link = NoLink
                     /\ mails[w] = <<>>
                     /\ has_permission(a, "admin")
                          => resp[w].code = 404 /\ resp[w].kind = "NotFound"
             /\ (~t.is_disabled /\ has_permission(a, "admin") /\ a.org = t.org
                   /\ req[w].notifier = "ok")
                  => /\ resp[w].code = 200
                     /\ resp[w].link = reset_link_for_user(t)
                     /\ mails[w] = <<ResetMail(t, reset_link_for_user(t))>>

\* An administrator's reset for a disabled account of the organization was
\* answered 404, after a commit (the disable) in this behaviour.
C4_Witness ==
  \E w \in Workers :
    /\ Done(w)
    /\ req[w].op = "reset"
    /\ users[req[w].target].is_disabled
    /\ req[w].target = 1
    /\ users[req[w].actor].org = users[req[w].target].org
    /\ resp[w].code = 404

\* C5 (I5): for every actor, an updateUser with 'password' and no
\* 'old_password' is rejected, one whose 'old_password' does not verify against
\* the target's hash is rejected, and a step changes a stored password_hash
\* only if it is an updateUser of that user whose 'old_password' verified
\* against the hash held before the step; the new hash is then the hash of the
\* new password.
C5_PasswordNeedsOldPassword ==
  [][\A w \in Workers :
       Served(w)
         => LET r == req'[w]
                d == r.data
            IN  /\ (r.op = "update" /\ "password" \in DOMAIN d /\ "old_password" \notin DOMAIN d)
                     => resp'[w].code \in {403, 404} /\ users' = users
                /\ (r.op = "update" /\ "old_password" \in DOMAIN d
                      /\ ~verify_password(users[r.target], d.old_password))
                     => resp'[w].code \in {403, 404} /\ users' = users
                /\ \A i \in UserIds(users) :
                     users'[i].password_hash # users[i].password_hash
                       => /\ r.op = "update"
                          /\ i = r.target
                          /\ "old_password" \in DOMAIN d
                          /\ verify_password(users[i], d.old_password)
                          /\ "password" \in DOMAIN d
                          /\ users'[i].password_hash = hash_password(d.password)
                /\ (r.op = "update" /\ resp'[w].code = 200 /\ "password" \in DOMAIN d)
                     => users'[r.target].password_hash = hash_password(d.password)]_vars

\* An administrator changed another user's password, giving that user's
\* current password.
C5_Witness ==
  \E w \in Workers :
    /\ Done(w)
    /\ req[w].op = "update"
    /\ resp[w].code = 200
    /\ req[w].actor # req[w].target
    /\ "password" \in DOMAIN req[w].data
    /\ req[w].data.old_password = "p1"
    /\ users[req[w].target].password_hash = hash_password("p2")

\* C6 (I4): a step changes a user's group_ids only if it is an updateUser of
\* that user by an actor holding admin; an updateUser carrying 'groups' from an
\* actor without admin (the target included) is rejected with 403 and changes
\* nothing, as Unauthorized unless its password fields were refused first;
\* the same request from an administrator of the organization succeeds and
\* sets the groups.
C6_GroupsOnlyByAdmin ==
  [][\A w \in Workers :
       Served(w)
         => LET r == req'[w]
                d == r.data
            IN  /\ \A i \in UserIds(users) :
                     users'[i].group_ids # users[i].group_ids
                       => r.op = "update" /\ i = r.target /\ IsAdmin(users, r.actor)
                /\ (r.op = "update" /\ "groups" \in DOMAIN d /\ ~IsAdmin(users, r.actor))
                     => /\ resp'[w].code = 403
                        /\ users' = users
                        /\ ("password" \notin DOMAIN d /\ "old_password" \notin DOMAIN d)
                             => resp'[w].kind = "Unauthorized"
                /\ (r.op = "update" /\ DOMAIN d = {"groups"} /\ IsAdmin(users, r.actor)
                      /\ users[r.actor].org = users[r.target].org /\ r.fault = "none")
                     => /\ resp'[w].code = 200
                        /\ users'[r.target].group_ids = d.groups]_vars

\* A non-administrator's update of their own groups was answered 403, in a
\* behaviour in which an administrator had changed that user's groups.
C6_Witness ==
  \E w \in Workers :
    /\ Done(w)
    /\ req[w].op = "update"
    /\ req[w].actor = req[w].target
    /\ "groups" \in DOMAIN req[w].data
    /\ resp[w].msg = "Must be admin to change groups membership."
    /\ users[req[w].target].group_ids = {}

\* The failures of the error taxonomy.
RejectKinds ==
  {"Unauthorized", "ValidationFailure", "Conflict", "NotFound", "PreconditionFailed", "Internal"}

\* C7: an operation rejected as Unauthorized, ValidationFailure, Conflict,
\* NotFound, PreconditionFailed or Internal leaves the users table as it was
\* and records no audit event: nothing the handler set before the rejection
\* (a re-hashed password, a patched e-mail, name or groups) persists.
C7_RejectionChangesNothing ==
  [][\A w \in Workers :
       (Served(w) /\ resp'[w].kind \in RejectKinds)
         => users' = users /\ events'[w] = <<>> /\ commits' = commits]_vars

\* An updateUser passed the old-password check, had the new hash set on the
\* session's user object and was then rejected with msg.
RejectedAfterPassword(w, msg) ==
  /\ Done(w)
  /\ req[w].op = "update"
  /\ {"password", "old_password"} \subseteq DOMAIN req[w].data
  /\ resp[w].msg = msg
  /\ users[req[w].target].password_hash = hash_password("p1")

C7_Witness ==
  \E w \in Workers :
    /\ RejectedAfterPassword(w, "Email already taken.")
    /\ "name" \in DOMAIN req[w].data

AdminOps == {"create", "invite", "reset", "disable", "enable"}

\* C8: an actor without admin changes no user record but their own; create,
\* invite, resetPassword, disable and enable succeed only for an actor holding
\* admin, updateUser only for an administrator or the target; any other
\* attempt is answered Unauthorized, changes nothing, records no audit event
\* and calls no notifier.
C8_MutationsAuthorized ==
  [][\A w \in Workers :
       Served(w)
         => LET r == req'[w]
                admin == IsAdmin(users, r.actor)
                denied == \/ r.op \in AdminOps /\ ~admin
                          \/ r.op = "update" /\ ~admin /\ r.actor # r.target
            IN  /\ ~admin
                     => /\ Len(users') = Len(users)
                        /\ \A i \in UserIds(users) : i # r.actor => users'[i] = users[i]
                /\ (r.op \in AdminOps /\ resp'[w].code = 200) => admin
                /\ (r.op = "update" /\ resp'[w].code = 200) => admin \/ r.actor = r.target
                /\ denied
                     => /\ resp'[w].kind = "Unauthorized"
                        /\ resp'[w].code = 403
                        /\ users' = users
                        /\ events'[w] = <<>>
                        /\ mails'[w] = <<>>]_vars

\* A non-administrator's invite was answered 403 and a non-administrator's
\* update of their own name succeeded (commits counts that write).
C8_Witness ==
  \E w \in Workers :
    /\ Done(w)
    /\ req[w].op = "invite"
    /\ ~IsAdmin(users, req[w].actor)
    /\ resp[w].kind = "Unauthorized"
    /\ users[req[w].actor].name = "n2"

\* C9: getUser is denied exactly when the actor neither holds list_users nor
\* is the target, and no response of any operation carries a user's api_key
\* unless the caller is that user or holds admin.
C9_ApiKeyConfidential ==
  \A w \in Workers :
    Done(w)
      => LET a == users[req[w].actor]
         IN  /\ req[w].op = "get"
                  => (resp[w].kind = "Unauthorized"
                        <=> ~(has_permission(a, "list_users") \/ a.id = req[w].target))
             /\ \A d \in resp[w].body :
                  d.api_key # NoKey => d.id = a.id \/ has_permission(a, "admin")

\* A caller holding list_users only read another user's record without its
\* api key.
C9_Witness ==
  \E w \in Workers :
    /\ Done(w)
    /\ req[w].op = "get"
    /\ req[w].actor # req[w].target
    /\ Permissions(users[req[w].actor]) = {"list_users"}
    /\ resp[w].code = 200
    /\ \A d \in resp[w].body : d.id = req[w].target /\ d.api_key = NoKey

\* The domain of an e-mail with one separator, in lower case, is on the
\* denylist or is qq.com.
BlockedEmail(e) ==
  /\ Cardinality(AtPositions(e)) = 1
  /\ \/ Lower(SubSeq(e, FirstAt(e) + 1, Len(e))) \in blacklist
     \/ Lower(SubSeq(e, FirstAt(e) + 1, Len(e))) = <<"qq.com">>

\* C10: a createUser whose e-mail has a denylisted domain or qq.com, in any
\* case of letters, fails (400 ValidationFailure for an administrator), adds
\* no user, records no audit event and generates and sends no invitation.
C10_BlockedDomainRejected ==
  [][\A w \in Workers :
       (Served(w) /\ req'[w].op = "create" /\ "email" \in DOMAIN req'[w].data
          /\ BlockedEmail(req'[w].data.email))
         => /\ resp'[w].code # 200
            /\ IsAdmin(users, req'[w].actor)
                 => resp'[w].code = 400 /\ resp'[w].kind = "ValidationFailure"
            /\ users' = users
            /\ events'[w] = <<>>
            /\ mails'[w] = <<>>
            /\ resp'[w].link = NoLink]_vars

C10_Witness ==
  \E w \in Workers :
    /\ Done(w)
    /\ req[w].op = "create"
    /\ "email" \in DOMAIN req[w].data
    /\ req[w].data.email = <<"a", At, "MAILINATOR.com">>
    /\ resp[w].msg = "Bad email address."

\* A createUser by an administrator with both required fields.
AdminCreate(w) ==
  /\ req[w].op = "create"
  /\ IsAdmin(users, req[w].actor)
  /\ {"name", "email"} \subseteq DOMAIN req[w].data

\* C11: a createUser whose e-mail has no '@' or more than one '@' is rejected
\* as a ValidationFailure, not as an Internal failure, and creates no user.
C11_ExactlyOneSeparator ==
  \A w \in Workers :
    (Done(w) /\ AdminCreate(w) /\ Cardinality(AtPositions(req[w].data.email)) # 1)
      => /\ resp[w].kind = "ValidationFailure"
         /\ \A i \in UserIds(users) : users[i].email # req[w].data.email


\* The row a successful createUser of worker w added.
Created(w) == users[CHOOSE i \in CreatedBy(w) : TRUE]

\* C12: a successful createUser answers with the invite link of the new user;
\* the notifier is called exactly once, with that link, when no_invite was not
\* given, and not at all when it was, the link being returned all the same.
C12_InviteLinkAndNotifier ==
  \A w \in Workers :
    (Done(w) /\ req[w].op = "create" /\ Ok(w))
      => /\ Cardinality(CreatedBy(w)) = 1
         /\ resp[w].link # NoLink
         /\ resp[w].link = invite_link_for_user(Created(w))
         /\ req[w].no_invite => mails[w] = <<>>
         /\ ~req[w].no_invite
              => mails[w] = <<InviteMail(users[req[w].actor], Created(w), resp[w].link)>>

\* A createUser with no_invite succeeded although the notifier was down.
C12_Witness ==
  \E w \in Workers :
    /\ Done(w)
    /\ req[w].op = "create"
    /\ Ok(w)
    /\ req[w].no_invite
    /\ req[w].notifier = "fail"
    /\ resp[w].link = <<"invite", 4>>
    /\ mails[w] = <<>>


\* What getUser by actor a answers for the user with this id on table us.
GetAfter(us, a, id) == GetUser(us, Plain("get", a, id)).resp

\* The record d shows the name and e-mail of the createUser request r, the
\* default group of org alone, and an enabled account.
MatchesInput(d, r, org) ==
  /\ d.name = r.data.name
  /\ d.email = r.data.email
  /\ d.groups = {DefaultGroup(org)}
  /\ d.is_disabled = FALSE

\* C13: a getUser served on the table a successful createUser(name, email)
\* leaves, by the creator or by any member of the organization allowed to read,
\* returns one record whose name and e-mail are those of the request, whose
\* groups are the organization's default group alone and which is enabled.
C13_GetAfterCreate ==
  [][\A w \in Workers :
       (Served(w) /\ req'[w].op = "create" /\ resp'[w].code = 200)
         => LET r == req'[w]
                org == users[r.actor].org
                id == Len(users')
            IN  /\ GetAfter(users', r.actor, id).code = 200
                /\ \A a \in UserIds(users') :
                     (users'[a].org = org /\ GetAfter(users', a, id).code = 200)
                       => /\ Cardinality(GetAfter(users', a, id).body) = 1
                          /\ \A d \in GetAfter(users', a, id).body :
                               d.id = id /\ MatchesInput(d, r, org)]_vars

\* The first write of the behaviour created user 4 as 'b@X.com', and a getUser
\* served next returned the record with the e-mail as given.
C13_Witness ==
  \E w \in Workers :
    /\ Done(w)
    /\ req[w].op = "get"
    /\ req[w].target = 4
    /\ commits = 1
    /\ resp[w].code = 200
    /\ \E d \in resp[w].body :
         /\ d.email = <<"b", At, "X.com">>
         /\ d.name = "n2"
         /\ d.groups = {DefaultGroup("A")}
         /\ ~d.is_disabled


\* The lifecycle handler of request r.
Transition(us, r) == IF r.op = "enable" THEN EnableUser(us, r) ELSE DisableUser(us, r)

\* C14: enable of an enabled user by an administrator of the organization
\* succeeds, changes nothing and returns the record as it was; disable of a
\* disabled user by another administrator succeeds and changes nothing; and a
\* successful enable or disable served again on the table it left leaves that
\* table as it is.
C14_TransitionsIdempotent ==
  [][\A w \in Workers :
       (Served(w) /\ req'[w].op \in {"enable", "disable"})
         => LET r == req'[w]
                inOrg == IsAdmin(users, r.actor) /\ users[r.actor].org = users[r.target].org
            IN  /\ (r.op = "enable" /\ inOrg /\ ~users[r.target].is_disabled)
                     => /\ resp'[w].code = 200
                        /\ users' = users
                        /\ resp'[w].body = {to_dict(users[r.target], TRUE)}
                /\ (r.op = "disable" /\ inOrg /\ r.actor # r.target
                      /\ users[r.target].is_disabled)
                     => /\ resp'[w].code = 200
                        /\ users' = users
                        /\ resp'[w].body = {to_dict(users[r.target], TRUE)}
                /\ resp'[w].code = 200
                     => /\ Transition(users', r).resp = resp'[w]
                        /\ Transition(users', r).users = users']_vars

\* The only write of the behaviour is an enable of user 1, whom nobody had
\* disabled: it was answered 200 and user 1 is enabled.
C14_Witness ==
  \E w \in Workers :
    /\ Done(w)
    /\ req[w].op = "enable"
    /\ req[w].target = 1
    /\ commits = 1
    /\ resp[w].code = 200
    /\ ~users[1].is_disabled


Mutations == {"create", "update", "disable", "enable"}

\* The user a successful mutation of request r is about: the row added by a
\* createUser, the target otherwise.
Subject(us2, r) == IF r.op = "create" THEN Len(us2) ELSE r.target

\* C15: every successful create, update, disable and enable records an audit
\* event for its target; an event is recorded only in a step whose commit
\* succeeded, and none by an operation whose commit failed.
C15_AuditAfterEveryMutation ==
  [][\A w \in Workers :
       Served(w)
         => /\ (req'[w].op \in Mutations /\ resp'[w].code = 200)
                 => \E k \in 1..Len(events'[w]) :
                      events'[w][k].object_id = Subject(users', req'[w])
            /\ events'[w] # <<>> => commits' = commits + 1
            /\ resp'[w].kind \in {"Conflict", "Internal"} => events'[w] = <<>>]_vars


Secrets == {"password", "old_password"}

\* C16: in every successful updateUser, whatever fields it carries, neither
\* 'old_password' nor 'password' is among the params handed to update_model or
\* in the updated_fields of the edit event.
C16_NoSecretsInPatchOrEvent ==
  [][\A w \in Workers :
       (Served(w) /\ req'[w].op = "update" /\ resp'[w].code = 200)
         => /\ DOMAIN UpdateCheck(users, req'[w]).params \cap Secrets = {}
            /\ \A k \in 1..Len(events'[w]) :
                 events'[w][k].updated_fields \cap Secrets = {}]_vars


\* C17: a createUser that reports a failure, a failure of the invite notifier
\* included, has added no user and recorded no 'create' event; a createUser
\* that added a user answered with success.
C17_CreateAllOrNothing ==
  [][\A w \in Workers :
       (Served(w) /\ req'[w].op = "create")
         => /\ resp'[w].code # 200 => users' = users /\ events'[w] = <<>>
            /\ users' # users => resp'[w].code = 200]_vars


\* The row v is the row u but for the fields named in fields.
SameBut(u, v, fields) == \A k \in (DOMAIN u) \ fields : v[k] = u[k]

\* C18: an updateUser, whatever its payload carries, changes of its target
\* only email, name, password_hash and group_ids, never id, org, is_disabled
\* or api_key, and changes no other row; is_disabled changes only in a disable
\* (to true) or an enable (to false) of that user by an administrator, and
\* those steps change nothing else.
C18_Frame ==
  [][\A w \in Workers :
       Served(w)
         => LET r == req'[w]
            IN  /\ r.op = "update"
                     => /\ Len(users') = Len(users)
                        /\ \A i \in UserIds(users) :
                             /\ DOMAIN users'[i] = DOMAIN users[i]
                             /\ SameBut(users[i], users'[i],
                                        IF i = r.target
                                        THEN {"email", "name", "password_hash", "group_ids"}
                                        ELSE {})
                /\ \A i \in UserIds(users) :
                     users'[i].is_disabled # users[i].is_disabled
                       => /\ r.op \in {"disable", "enable"}
                          /\ i = r.target
                          /\ IsAdmin(users, r.actor)
                          /\ users'[i].is_disabled = (r.op = "disable")
                /\ r.op \in {"disable", "enable"}
                     => /\ Len(users') = Len(users)
                        /\ \A i \in UserIds(users) :
                             /\ DOMAIN users'[i] = DOMAIN users[i]
                             /\ SameBut(users[i], users'[i],
                                        IF i = r.target THEN {"is_disabled"} ELSE {})]_vars

\* An updateUser whose payload named is_disabled, api_key, org and id together
\* with a new password succeeded: the password changed and the account is
\* enabled, of organization A, with its own id and api key.
C18_Witness ==
  \E w \in Workers :
    /\ Done(w)
    /\ req[w].op = "update"
    /\ {"is_disabled", "api_key", "org", "id", "password"} \subseteq DOMAIN req[w].data
    /\ resp[w].code = 200
    /\ req[w].target = 1
    /\ users[1].password_hash = hash_password("p2")
    /\ ~users[1].is_disabled
    /\ users[1].org = "A"
    /\ users[1].api_key = ApiKey(1)
    /\ users[1].id = 1


\* The administrators of org whose accounts are enabled.
EnabledAdmins(org) ==
  {i \in UserIds(users) : users[i].org = org /\ IsAdmin(users, i) /\ ~users[i].is_disabled}

\* Workers w and v have both ended a disable, each of the other's actor.
MutualDisable(w, v) ==
  /\ w # v
  /\ Done(w) /\ Done(v)
  /\ req[w].op = "disable" /\ req[v].op = "disable"
  /\ req[w].actor = req[v].target
  /\ req[w].target = req[v].actor

\* C19: with only enabled users acting and nobody's groups changing, under
\* every interleaving of disable and enable requests split at their commits
\* every organization keeps an enabled administrator, and two administrators
\* disabling each other do not both succeed.
C19_NoAdminLockout ==
  /\ \A org \in {users[i].org : i \in UserIds(users)} : EnabledAdmins(org) # {}
  /\ \A w \in Workers, v \in Workers : MutualDisable(w, v) => ~(Ok(w) /\ Ok(v))


\* The organization of the user with this id on table us.
OrgOf(us, id) == us[id].org

TargetOps == {"get", "invite", "reset", "update", "disable", "enable"}

\* C20: no request touches a user of another organization than its actor's:
\* rows of other organizations stay as they are, a new row belongs to the
\* actor's organization, every record, link, mail and audit event a request
\* produces is about a user of the actor's organization, a request whose
\* target is of another organization does not succeed, and listUsers returns
\* the users of the actor's organization and no others.
C20_TenantIsolation ==
  [][\A w \in Workers :
       Served(w)
         => LET r == req'[w]
                org == OrgOf(users, r.actor)
            IN  /\ \A i \in UserIds(users) : OrgOf(users, i) # org => users'[i] = users[i]
                /\ \A i \in UserIds(users') \ UserIds(users) : OrgOf(users', i) = org
                /\ \A d \in resp'[w].body : OrgOf(users', d.id) = org
                /\ resp'[w].link # NoLink => OrgOf(users', resp'[w].link[2]) = org
                /\ \A k \in 1..Len(mails'[w]) : OrgOf(users', mails'[w][k].user) = org
                /\ \A k \in 1..Len(events'[w]) : OrgOf(users', events'[w][k].object_id) = org
                /\ (r.op \in TargetOps /\ OrgOf(users, r.target) # org) => resp'[w].code # 200
                /\ (r.op = "list" /\ resp'[w].code = 200)
                     => {d.id : d \in resp'[w].body}
                          = {i \in UserIds(users) : OrgOf(users, i) = org}]_vars

\* The administrator of organization B asked for user 1 of organization A and
\* was answered 404, after creating a user in B.
C20_Witness ==
  \E w \in Workers :
    /\ Done(w)
    /\ req[w].op = "get"
    /\ req[w].actor = 3
    /\ req[w].target = 1
    /\ resp[w].code = 404
    /\ resp[w].body = {}
    /\ Len(users) = 4
    /\ users[4].org = "B"


====
